---- MODULE Spec2Model ----
(***************************************************************************)
(* Model of the Enemamar backend: the payment callback endpoints           *)
(* (app/router/endpoints/payment_router.py), the authentication            *)
(* dependencies, the rate limiter's key function                           *)
(* (app/utils/security/limiter.py), the course routes                      *)
(* (app/router/endpoints/course_router.py) and the course service          *)
(* (app/service/courseService.py).  Each component has its own             *)
(* specification over the shared variables.                                *)
(*                                                                         *)
(* A request body is a sequence of lexical units ("tokens") of the bytes   *)
(* received: the braces, the comma, a blank, one object member             *)
(* "key":"value" (written with its non-ASCII characters raw or \u-escaped),*)
(* a bare number, and a byte that is not valid UTF-8.  json.loads and      *)
(* json.dumps are computed on these sequences.  HMAC-SHA256 is idealised   *)
(* as collision free: a digest is the pair (key, message).                 *)
(***************************************************************************)
EXTENDS Naturals, Sequences, FiniteSets

VARIABLES phase, req, events, resp, forwarded, prev, greq, vout, gout, gprev,
          lim, db, call, ret

vars == <<phase, req, events, resp, forwarded, prev, greq, vout, gout, gprev,
          lim, db, call, ret>>

\* Largest number of members an inbound JSON object is drawn with.
MaxMembers == 2

------------------------------------------------------------------------------
\* Bytes of a body.

Tok(t, k, v, esc) == [t |-> t, k |-> k, v |-> v, esc |-> esc]

LB  == Tok("{", "", "", FALSE)
RB  == Tok("}", "", "", FALSE)
CM  == Tok(",", "", "", FALSE)
WS  == Tok(" ", "", "", FALSE)
NUM == Tok("1", "", "", FALSE)
BAD == Tok("xFF", "", "", FALSE)

Keys == {"trx_ref", "status", "reference"}

AsciiValue == "TX1"

\* The one-character string U+00E9, whose UTF-8 encoding is not ASCII.
NonAsciiValue == "U+00E9"

Values == {AsciiValue, NonAsciiValue}

NonAscii(v) == v = NonAsciiValue

\* Python's None.
NoneVal == "<None>"

\* The member "k":"v" as it lies in the body; esc: v is written \u-escaped.
Member(k, v, esc) == Tok("member", k, v, esc)

MemberToks ==
    {Member(k, v, esc) : k \in Keys, v \in Values, esc \in BOOLEAN}
        \ {Member(k, AsciiValue, TRUE) : k \in Keys}

------------------------------------------------------------------------------
\* json.loads(raw_body) and json.dumps(payload_dict, separators=(",", ":")).

Item(k, v) == [k |-> k, v |-> v]

HasKey(d, k) == \E i \in DOMAIN d : d[i].k = k

\* dict.__setitem__: a repeated key keeps its place and takes the new value.
setitem(d, k, v) ==
    IF HasKey(d, k)
    THEN [i \in DOMAIN d |-> IF d[i].k = k THEN Item(k, v) ELSE d[i]]
    ELSE Append(d, Item(k, v))

\* dict.get(k): the value, or None.
dict_get(d, k) ==
    IF HasKey(d, k) THEN d[CHOOSE i \in DOMAIN d : d[i].k = k].v ELSE NoneVal

RECURSIVE dict_of_members(_)
dict_of_members(ms) ==
    IF ms = <<>> THEN <<>>
    ELSE LET m == ms[Len(ms)]
         IN  setitem(dict_of_members(SubSeq(ms, 1, Len(ms) - 1)), m.k, m.v)

IsWS(t) == t.t = " "

NotWS(t) == ~IsWS(t)

\* The text between the braces is members separated by single commas.
MembersOK(inner) ==
    \/ inner = <<>>
    \/ /\ Len(inner) % 2 = 1
       /\ \A i \in DOMAIN inner :
            IF i % 2 = 1 THEN inner[i].t = "member" ELSE inner[i] = CM

MembersOf(inner) ==
    [j \in 1..((Len(inner) + 1) \div 2) |-> inner[2 * j - 1]]

Parsed(err, kind, items) == [err |-> err, kind |-> kind, items |-> items]

json_loads(raw) ==
    IF \E i \in DOMAIN raw : raw[i] = BAD
    THEN Parsed("UnicodeDecodeError", "", <<>>)
    ELSE LET s == SelectSeq(raw, NotWS)
         IN  IF s = <<NUM>> THEN Parsed("", "int", <<>>)
             ELSE IF /\ Len(s) >= 2
                     /\ s[1] = LB
                     /\ s[Len(s)] = RB
                     /\ MembersOK(SubSeq(s, 2, Len(s) - 1))
                  THEN Parsed("", "dict",
                              dict_of_members(MembersOf(SubSeq(s, 2, Len(s) - 1))))
                  ELSE Parsed("JSONDecodeError", "", <<>>)

RECURSIVE JoinMembers(_)
JoinMembers(d) ==
    IF d = <<>> THEN <<>>
    ELSE LET it == d[1]
             m  == Member(it.k, it.v, NonAscii(it.v))
         IN  IF Len(d) = 1 THEN <<m>>
             ELSE <<m, CM>> \o JoinMembers(Tail(d))

json_dumps(p) ==
    IF p.kind = "int" THEN <<NUM>>
    ELSE <<LB>> \o JoinMembers(p.items) \o <<RB>>

------------------------------------------------------------------------------
\* Header values and the signature.

Sig(kind, key, msg) == [kind |-> kind, key |-> key, msg |-> msg]

Absent      == Sig("absent", "", <<>>)
Empty       == Sig("empty", "", <<>>)
TextSig     == Sig("text", "", <<>>)
NonAsciiSig == Sig("nonascii", "", <<>>)

CHAPA_WEBHOOK_SECRET == "secret"

OtherSecret == "other"

\* hmac.new(key, msg, hashlib.sha256).hexdigest()
hexdigest(key, msg) == Sig("hex", key, msg)

\* Python's `not value` of a header: None and "" are falsy.
Falsy_OnlyEmpty(h) == h.kind = "empty"

Falsy(h) == h.kind \in {"absent", "empty"}

\* hmac.compare_digest(a, b) of str a and b.
compare_digest_KindOnly(a, b) ==
    IF b.kind \in {"absent", "nonascii"} THEN "TypeError"
    ELSE IF a.kind = b.kind THEN "True" ELSE "False"

compare_digest(a, b) ==
    IF b.kind \in {"absent", "nonascii"} THEN "TypeError"
    ELSE IF a = b THEN "True" ELSE "False"

------------------------------------------------------------------------------
\* Requests, responses and the two handlers.

GET_CALLBACK == "GET /payment/callback"

POST_WEBHOOK == "POST /payment/webhook"

Request(endpoint, body, xsig, csig, ref_id, trx_ref, status) ==
    [endpoint |-> endpoint, body |-> body, xsig |-> xsig, csig |-> csig,
     ref_id |-> ref_id, trx_ref |-> trx_ref, status |-> status]

NoRequest == Request("", <<>>, Absent, Absent, "", "", "")

Response(status, detail) == [status |-> status, detail |-> detail]

NoResponse == Response(0, "")

HTTPException(status, detail) == Response(status, detail)

\* An exception no handler catches: the framework answers 500.
Unhandled == Response(500, "Internal Server Error")

\* What the handler returns when process_payment_callback returned.
Returned == Response(200, "process_payment_callback")

\* The payload handed on; its schema (app.domain.schema.courseSchema) is not
\* part of the sources, so the fields are kept as given (None for a missing key).
CallbackPayload(trx_ref, status, reference) ==
    [trx_ref |-> trx_ref, status |-> status, reference |-> reference]

Outcome(ev, r, fw) == [events |-> ev, resp |-> r, forwarded |-> fw]

\* GET /payment/callback
payment_callback_get(r) ==
    Outcome(<<"CallbackPayload", "process_payment_callback">>,
            Returned,
            <<CallbackPayload(r.trx_ref, r.status, r.ref_id)>>)

\* Reads x-chapa-signature only.
chapa_signature_XOnly(r) == r.xsig

\* The header value the webhook handler takes as the signature.
chapa_signature(r) == IF Falsy(r.xsig) THEN r.csig ELSE r.xsig

\* POST /payment/webhook
payment_callback_webhook(r) ==
    LET sig == chapa_signature(r)
    IN
    IF Falsy(sig)
    THEN Outcome(<<"headers.get">>,
                 HTTPException(400, "Webhook signature header not found."),
                 <<>>)
    ELSE
    LET payload_dict == json_loads(r.body)
    IN
    IF payload_dict.err = "UnicodeDecodeError"
    THEN Outcome(<<"headers.get", "body", "json.loads">>, Unhandled, <<>>)
    ELSE IF payload_dict.err = "JSONDecodeError"
    THEN Outcome(<<"headers.get", "body", "json.loads">>,
                 HTTPException(400, "Invalid JSON in request body."),
                 <<>>)
    ELSE
    LET payload_to_hash == json_dumps(payload_dict)
        local_signature == hexdigest(CHAPA_WEBHOOK_SECRET, payload_to_hash)
        cmp == compare_digest(local_signature, sig)
        upto == <<"headers.get", "body", "json.loads", "json.dumps", "hmac.new">>
    IN
    IF cmp = "TypeError"
    THEN Outcome(upto \o <<"compare_digest:TypeError">>, Unhandled, <<>>)
    ELSE IF cmp = "False"
    THEN Outcome(upto \o <<"compare_digest:False">>,
                 HTTPException(401, "Invalid signature."),
                 <<>>)
    ELSE IF payload_dict.kind # "dict"
    THEN Outcome(upto \o <<"compare_digest:True", "payload_dict.get">>,
                 Unhandled, <<>>)
    ELSE Outcome(upto \o <<"compare_digest:True", "payload_dict.get",
                           "CallbackPayload", "process_payment_callback">>,
                 Returned,
                 <<CallbackPayload(dict_get(payload_dict.items, "trx_ref"),
                                   dict_get(payload_dict.items, "status"),
                                   dict_get(payload_dict.items, "reference"))>>)

------------------------------------------------------------------------------
\* The requests the model sends.

RECURSIVE SeqsUpTo(_, _)
SeqsUpTo(S, n) ==
    IF n = 0 THEN {<<>>}
    ELSE LET shorter == SeqsUpTo(S, n - 1)
         IN  shorter \cup {Append(s, x) : s \in shorter, x \in S}

RECURSIVE Commas(_)
Commas(ms) ==
    IF Len(ms) <= 1 THEN ms ELSE <<ms[1], CM>> \o Commas(Tail(ms))

ObjectBody(ms, blank) ==
    <<LB>> \o (IF blank THEN <<WS>> ELSE <<>>) \o Commas(ms) \o <<RB>>

ObjectBodies ==
    {ObjectBody(ms, blank) : ms \in SeqsUpTo(MemberToks, MaxMembers),
                             blank \in BOOLEAN}

OtherBodies ==
    { <<>>, <<NUM>>, <<WS, NUM>>, <<BAD>>, <<LB>>, <<LB, BAD, RB>>,
      <<LB, CM, RB>>, <<LB, RB, RB>> }

Bodies == ObjectBodies \cup OtherBodies

\* The canonical bytes the handler hashes, when the body parses.
Reserialized(body) ==
    IF json_loads(body).err = "" THEN json_dumps(json_loads(body)) ELSE body

SigChoices(body) ==
    { Absent, Empty, TextSig, NonAsciiSig,
      hexdigest(CHAPA_WEBHOOK_SECRET, body),
      hexdigest(OtherSecret, body),
      hexdigest(CHAPA_WEBHOOK_SECRET, Reserialized(body)) }

------------------------------------------------------------------------------
\* The Authorization header and the dependencies of
\* app/utils/middleware/dependancies.py.

SECRET_KEY == "jwt-key"

OtherKey == "other-key"

UserIds == {"u1", "u2"}

Roles == {"student", "instructor", "admin"}

Claims(id, role) == [id |-> id, role |-> role]

NoClaims == Claims(NoneVal, NoneVal)

\* A token string: a JWT signed with key, expired or not, carrying claims; or
\* text that is no JWT.
Token(form, key, expired, claims) ==
    [form |-> form, key |-> key, expired |-> expired, claims |-> claims]

NoToken == Token("", "", FALSE, NoClaims)

Garbage == Token("garbage", "", FALSE, NoClaims)

\* Tokens issued by this server and still valid; the role claim may be missing.
ValidTokens ==
    {Token("jwt", SECRET_KEY, FALSE, Claims(id, role)) :
        id \in UserIds, role \in Roles \cup {NoneVal}}

InvalidTokens ==
    { Token("jwt", OtherKey, FALSE, Claims("u1", "admin")),
      Token("jwt", SECRET_KEY, TRUE, Claims("u1", "admin")),
      Garbage }

Tokens == ValidTokens \cup InvalidTokens

\* A header value is a sequence of parts: a scheme word, one blank, a token.
Part(kind, tok) == [kind |-> kind, tok |-> tok]

BEARER == Part("Bearer", NoToken)
LOWER  == Part("bearer", NoToken)
BASIC  == Part("Basic", NoToken)
SP     == Part(" ", NoToken)

Tk(t) == Part("token", t)

Header(present, parts) == [present |-> present, parts |-> parts]

NoHeader == Header(FALSE, <<>>)

Headers ==
    { NoHeader, Header(TRUE, <<>>), Header(TRUE, <<BEARER>>),
      Header(TRUE, <<BEARER, SP>>) }
    \cup {Header(TRUE, <<BEARER, SP, Tk(t)>>) : t \in Tokens}
    \cup {Header(TRUE, <<LOWER, SP, Tk(t)>>) : t \in Tokens}
    \cup {Header(TRUE, <<BASIC, SP, Tk(t)>>) : t \in Tokens}
    \cup {Header(TRUE, <<BEARER, Tk(t)>>) : t \in Tokens}
    \cup {Header(TRUE, <<BEARER, SP, SP, Tk(t)>>) : t \in Tokens}
    \cup {Header(TRUE, <<Tk(t)>>) : t \in Tokens}
    \cup {Header(TRUE, <<BEARER, SP, Tk(t), SP, Tk(Garbage)>>) : t \in Tokens}

\* not token
NotToken(h) == ~h.present \/ h.parts = <<>>

\* token.startswith("Bearer ")
startswith_Bearer(h) ==
    /\ Len(h.parts) >= 2
    /\ h.parts[1] = BEARER
    /\ h.parts[2] = SP

\* str.split(" "): the pieces between single blanks.
RECURSIVE split(_)
split(parts) ==
    IF \E i \in DOMAIN parts : parts[i] = SP
    THEN LET i == CHOOSE i \in DOMAIN parts :
                    /\ parts[i] = SP
                    /\ \A j \in 1..(i - 1) : parts[j] # SP
         IN  <<SubSeq(parts, 1, i - 1)>> \o split(SubSeq(parts, i + 1, Len(parts)))
    ELSE <<parts>>

\* What a call of verify_access_token ends in: a returned value of some shape
\* ("dict" with its claims, "None", "str") or a raised exception.
VOut(kind, claims) == [kind |-> kind, claims |-> claims]

\* verify_access_token(token): the decoded claims of a token that is a JWT
\* signed with the server's key and not expired; Unauthenticated otherwise.
verify_access_token(piece) ==
    IF /\ Len(piece) = 1
       /\ piece[1].kind = "token"
       /\ piece[1].tok.form = "jwt"
       /\ piece[1].tok.key = SECRET_KEY
       /\ ~piece[1].tok.expired
    THEN VOut("dict", piece[1].tok.claims)
    ELSE VOut("HTTPException", NoClaims)

\* The end of a dependency: raised is "" when it returned (claims or an id),
\* else the exception; status and detail are those of the response then sent.
Res(raised, status, detail, claims, id) ==
    [raised |-> raised, status |-> status, detail |-> detail,
     claims |-> claims, id |-> id]

ReturnClaims(c) == Res("", 0, "", c, NoneVal)

ReturnId(id) == Res("", 0, "", NoClaims, id)

Raise(status, detail) == Res("HTTPException", status, detail, NoClaims, NoneVal)

\* An exception that is no HTTPException leaves the dependency: 500.
Propagate(exc) == Res(exc, 500, "Internal Server Error", NoClaims, NoneVal)

\* The 401 verify_access_token raises.
Unauthenticated == Raise(401, "verify_access_token")

\* is_logged_in with the first piece of the header handed to the verifier.
is_logged_in_FirstPiece(h) ==
    IF NotToken(h) \/ ~startswith_Bearer(h)
    THEN Raise(401, "Missing or invalid token")
    ELSE LET user_data == verify_access_token(split(h.parts)[1])
         IN  IF user_data.kind = "dict" THEN ReturnClaims(user_data.claims)
             ELSE Unauthenticated

\* is_logged_in that decodes the token without verifying it.
is_logged_in_Unverified(h) ==
    IF NotToken(h) \/ ~startswith_Bearer(h)
    THEN Raise(401, "Missing or invalid token")
    ELSE LET piece == split(h.parts)[2]
         IN  IF Len(piece) = 1 /\ piece[1].tok.form = "jwt"
             THEN ReturnClaims(piece[1].tok.claims)
             ELSE Unauthenticated

\* is_logged_in that accepts a token once: presented again right after it was
\* accepted, it is refused.
is_logged_in_OnceOnly(h) ==
    IF NotToken(h) \/ ~startswith_Bearer(h)
    THEN Raise(401, "Missing or invalid token")
    ELSE LET user_data == verify_access_token(split(h.parts)[2])
         IN  IF user_data.kind = "dict"
                /\ ~(gprev.req.header = h /\ gprev.out.raised = "")
             THEN ReturnClaims(user_data.claims)
             ELSE Unauthenticated

is_logged_in(h) ==
    IF NotToken(h) \/ ~startswith_Bearer(h)
    THEN Raise(401, "Missing or invalid token")
    ELSE LET user_data == verify_access_token(split(h.parts)[2])
         IN  IF user_data.kind = "dict" THEN ReturnClaims(user_data.claims)
             ELSE Unauthenticated

is_admin_OrInstructor(h) ==
    LET decoded_token == is_logged_in(h)
    IN  IF decoded_token.raised # "" THEN decoded_token
        ELSE IF decoded_token.claims.role \notin {"admin", "instructor"}
        THEN Raise(403, "Only admins can access this resource")
        ELSE decoded_token

is_admin(h) ==
    LET decoded_token == is_logged_in(h)
    IN  IF decoded_token.raised # "" THEN decoded_token
        ELSE IF decoded_token.claims.role # "admin"
        THEN Raise(403, "Only admins can access this resource")
        ELSE decoded_token

is_admin_or_instructor(h) ==
    LET decoded_token == is_logged_in(h)
    IN  IF decoded_token.raised # "" THEN decoded_token
        ELSE IF decoded_token.claims.role \notin {"admin", "instructor"}
        THEN Raise(403, "Only admins or instructors can access this resource")
        ELSE decoded_token

\* get_optional_user_id without its try / except.
optional_user_id_NoCatch(h, user_data) ==
    IF NotToken(h) \/ ~startswith_Bearer(h) THEN ReturnId(NoneVal)
    ELSE IF user_data.kind = "HTTPException" THEN Unauthenticated
    ELSE IF user_data.kind = "Exception" THEN Propagate("Exception")
    ELSE IF user_data.kind = "dict" THEN ReturnId(user_data.claims.id)
    ELSE IF user_data.kind = "None" THEN ReturnId(NoneVal)
    ELSE Propagate("AttributeError")

\* get_optional_user_id, user_data being what its call of verify_access_token
\* ends in (the call is made only for a header that starts with "Bearer ").
optional_user_id(h, user_data) ==
    IF NotToken(h) \/ ~startswith_Bearer(h) THEN ReturnId(NoneVal)
    ELSE IF user_data.kind = "HTTPException" THEN ReturnId(NoneVal)
    ELSE IF user_data.kind = "Exception" THEN Propagate("Exception")
    ELSE IF user_data.kind = "dict" THEN ReturnId(user_data.claims.id)
    ELSE IF user_data.kind = "None" THEN ReturnId(NoneVal)
    ELSE Propagate("AttributeError")

\* get_optional_user_id accepting the header `Bearer <token>` only.
get_optional_user_id_Strict(h) ==
    IF NotToken(h) \/ ~startswith_Bearer(h) \/ Len(h.parts) # 3
    THEN ReturnId(NoneVal)
    ELSE optional_user_id(h, verify_access_token(split(h.parts)[2]))

get_optional_user_id(h) ==
    optional_user_id(h, IF startswith_Bearer(h)
                        THEN verify_access_token(split(h.parts)[2])
                        ELSE VOut("None", NoClaims))

Dependencies ==
    {"is_logged_in", "is_admin", "is_admin_or_instructor", "get_optional_user_id"}

\* Depends(dep) resolved for a request with Authorization header h.
Resolve(dep, h) ==
    CASE dep = "is_logged_in" -> is_logged_in(h)
      [] dep = "is_admin" -> is_admin(h)
      [] dep = "is_admin_or_instructor" -> is_admin_or_instructor(h)
      [] OTHER -> get_optional_user_id(h)

GateRequest(dep, h) == [dep |-> dep, header |-> h]

NoGateRequest == GateRequest("", NoHeader)

\* out: the end of the dependency; ran: the guarded handler was executed.
Gated(out, ran) == [out |-> out, ran |-> ran]

NoGated == Gated(ReturnId(NoneVal), FALSE)

\* Every end a call of verify_access_token could have, whatever its code.
AnyVerifyOutcome ==
    {VOut("dict", c) : c \in {Claims(id, role) : id \in UserIds \cup {NoneVal},
                                                 role \in Roles \cup {NoneVal}}}
    \cup {VOut(k, NoClaims) : k \in {"None", "str", "HTTPException", "Exception"}}

------------------------------------------------------------------------------
\* The rate limiter's key function (app/utils/security/limiter.py).

\* Addresses requests come from.
Addrs == {"10.0.0.1", "10.0.0.2"}

\* The default value of the parameter user_id: the Depends(...) object itself.
\* It is an object without __bool__ or __len__, hence truthy, and str() of it
\* does not depend on the request.
DependsDefault == "Depends(get_optional_user_id)"

LimRequest(h, addr) == [header |-> h, addr |-> addr]

NoLimRequest == LimRequest(NoHeader, "")

\* request.client.host
get_remote_address(request) == request.addr

\* str(x) of a string or of None
str(x) == IF x = NoneVal THEN "None" ELSE x

\* if user_id: for None, a user id, or the Depends object.
Truthy(user_id) == user_id # NoneVal /\ user_id # ""

jwt_user_or_ip_key(request, user_id) ==
    IF Truthy(user_id) THEN str(user_id) ELSE get_remote_address(request)

\* The limiter calls key_func(request): user_id takes its default.
key_func(request) == jwt_user_or_ip_key(request, DependsDefault)

Limited(r, key) == [req |-> r, key |-> key, prev |-> [req |-> NoLimRequest, key |-> ""]]

NoLimited == Limited(NoLimRequest, "")

------------------------------------------------------------------------------
\* The course service (app/service/courseService.py) and the course routes
\* (app/router/endpoints/course_router.py).

CourseIds == {"c1", "c2"}

\* Largest number of lessons a course is drawn with.
MaxLessons == 2

Lesson(id, video) == [id |-> id, video |-> video]

Course(id, instructor_id, price, discount, lessons) ==
    [id |-> id, instructor_id |-> instructor_id, price |-> price,
     discount |-> discount, lessons |-> lessons]

\* discount is <<>> for None, <<n>> for the number n.
NoCourse == Course("", NoneVal, 0, <<>>, <<>>)

\* The database behind the repositories: users (id -> user), courses
\* (id -> course) and enrollments (user, course); session holds the course
\* objects the service's SQLAlchemy session has loaded, queries the number of
\* getCourses calls made in that session, thumbnails the thumbnail_url saved
\* for a course, and files the temporary files on the server's disk.
Db(users, courses, enrollments) ==
    [users |-> users, courses |-> courses, enrollments |-> enrollments,
     session |-> <<>>, queries |-> 0, thumbnails |-> <<>>, files |-> {}]

NoDb == Db(<<>>, <<>>, {})

\* A call of a route handler or of a service method, with its arguments; fault
\* lists what its repository calls give back.
Query(search, page, page_size) ==
    [search |-> search, page |-> page, page_size |-> page_size]

NoQuery == Query("", 0, 0)

Call(op, header, course_id, arg, fault) ==
    [op |-> op, header |-> header, course_id |-> course_id, arg |-> arg,
     fault |-> fault, query |-> NoQuery]

\* A call that carries search and paging parameters.
Asking(c, search, page, page_size) ==
    [c EXCEPT !.query = Query(search, page, page_size)]

NoCall == Call("", NoHeader, "", NoneVal, <<>>)

\* A call of a service or repository method made on the way.
Evt(fn, arg) == [fn |-> fn, arg |-> arg]

\* The end of a call: raised is "" when it returned data, else the exception
\* class; events are the calls it made, in order.
Pagination(page, page_size, total_items) ==
    [page |-> page, page_size |-> page_size, total_items |-> total_items]

NoPagination == Pagination(0, 0, 0)

Out(raised, status, detail, data, evs) ==
    [raised |-> raised, status |-> status, detail |-> detail, data |-> data,
     events |-> evs, pagination |-> NoPagination]

\* A returned response with its "pagination" entry.
Paginated(o, page, page_size, total_items) ==
    [o EXCEPT !.pagination = Pagination(page, page_size, total_items)]

NoOut == Out("", 0, "", <<>>, <<>>)

\* raise ValidationError(detail=...)
ValidationError(detail, evs) == Out("ValidationError", 400, detail, <<>>, evs)

\* An exception no handler catches: the response is 500.
Uncaught(exc, evs) == Out(exc, 500, "Internal Server Error", <<>>, evs)

\* A dependency raised: the handler is not entered.
Denied(g) == Out(g.raised, g.status, g.detail, <<>>, <<>>)

\* What a repository call gives back, (value, err): a fault is an error of the
\* database, or the way the repository reports a missing row.
Faults == {"", "NotFoundError", "Exception"}

RepoRes(found, value, err) == [found |-> found, value |-> value, err |-> err]

\* course_repo.get_course_with_lessons / course_repo.get_course
get_course(d, course_id, fault) ==
    IF fault = "Exception" THEN RepoRes(FALSE, NoCourse, "Exception")
    ELSE IF course_id \in DOMAIN d.courses
         THEN RepoRes(TRUE, d.courses[course_id], "")
    ELSE IF fault = "NotFoundError" THEN RepoRes(FALSE, NoCourse, "NotFoundError")
    ELSE RepoRes(FALSE, NoCourse, "")

\* The names CourseService defines.
CourseServiceAttrs ==
    {"addCourse", "addThumbnail", "getCourse", "getCourses", "getEnrollment",
     "enrollCourse", "checkAdminOrOwner", "getEnrolledCourses",
     "getEnrolledUsers", "get_courses_analysis", "get_all_courses_analytics",
     "get_instructor_courses_analytics", "get_intructor_course",
     "is_user_enrolled", "updateCourse", "deleteCourse",
     "getInstructorEnrollments"}

\* UUID(user_id) accepts the id strings the server issues.
UUID_ok(user_id) == user_id \in UserIds

\* DELETE /courses/enroll/{course_id}: the handler calls
\* course_service.unenrollCourse, which CourseService does not define.
unenroll_course(course_id, h, d) ==
    LET decoded_token == is_logged_in(h)
    IN  IF decoded_token.raised # "" THEN [ret |-> Denied(decoded_token), db |-> d]
        ELSE IF ~UUID_ok(decoded_token.claims.id)
             THEN [ret |-> Uncaught("ValueError", <<>>), db |-> d]
        ELSE IF "unenrollCourse" \notin CourseServiceAttrs
             THEN [ret |-> Uncaught("AttributeError", <<>>), db |-> d]
        ELSE [ret |-> NoOut, db |-> d]

\* CourseService.get_instructor_courses_analytics; rows and err are what the
\* repository gives back.
get_instructor_courses_analytics(instructor_id, rows, err) ==
    LET asked == <<Evt("CourseService.get_instructor_courses_analytics", instructor_id)>>
        read  == Append(asked, Evt("course_repo.get_instructor_courses_analytics", instructor_id))
    IN  IF ~Truthy(instructor_id)
        THEN ValidationError("Instructor ID is required", asked)
        ELSE IF err # ""
        THEN ValidationError("Failed to retrieve instructor courses analytics", read)
        ELSE IF rows = <<>>
        THEN Out("", 200, "No courses found for this instructor matching the criteria", <<>>, read)
        ELSE Out("", 200, "Instructor courses analytics fetched successfully", rows, read)

\* The handler taking the instructor from a query parameter when one is sent.
instructor_courses_analytics_FromQuery(q, h, rows, err) ==
    LET decoded_token == is_admin_or_instructor(h)
    IN  IF decoded_token.raised # "" THEN Denied(decoded_token)
        ELSE get_instructor_courses_analytics(
                 IF q # NoneVal THEN q ELSE str(decoded_token.claims.id), rows, err)

\* GET /analysis/instructor/courses; q is an instructor_id the client sends as
\* a query parameter.
instructor_courses_analytics(q, h, rows, err) ==
    LET decoded_token == is_admin_or_instructor(h)
    IN  IF decoded_token.raised # "" THEN Denied(decoded_token)
        ELSE get_instructor_courses_analytics(str(decoded_token.claims.id), rows, err)

\* getCourse hiding the video of the first lesson only.
getCourse_FirstOnly(course_id, as_admin, d, fault) ==
    LET asked == <<Evt("course_repo.get_course_with_lessons", course_id)>>
        r     == get_course(d, course_id, fault)
    IN  IF course_id = "" THEN ValidationError("Course ID is required", <<>>)
        ELSE IF r.err = "NotFoundError" THEN ValidationError("Course not found", asked)
        ELSE IF r.err # "" THEN ValidationError("Failed to retrieve course", asked)
        ELSE IF ~r.found THEN ValidationError("Course not found", asked)
        ELSE LET lessons == r.value.lessons
                 hidden  == [i \in DOMAIN lessons |->
                                IF i = 1 THEN Lesson(lessons[i].id, NoneVal)
                                ELSE lessons[i]]
             IN  Out("", 200, "course fetched successfully",
                     IF as_admin THEN lessons ELSE hidden, asked)

\* CourseService.getCourse: data are the lessons of the course response.
getCourse(course_id, as_admin, d, fault) ==
    LET asked == <<Evt("course_repo.get_course_with_lessons", course_id)>>
        r     == get_course(d, course_id, fault)
    IN  IF course_id = "" THEN ValidationError("Course ID is required", <<>>)
        ELSE IF r.err = "NotFoundError" THEN ValidationError("Course not found", asked)
        ELSE IF r.err # "" THEN ValidationError("Failed to retrieve course", asked)
        ELSE IF ~r.found THEN ValidationError("Course not found", asked)
        ELSE LET lessons == r.value.lessons
                 hidden  == [i \in DOMAIN lessons |-> Lesson(lessons[i].id, NoneVal)]
             IN  Out("", 200, "course fetched successfully",
                     IF as_admin THEN lessons ELSE hidden, asked)

\* GET /courses/{course_id}
get_course_route(course_id, d, fault) == getCourse(course_id, FALSE, d, fault)

User(id, role) == [id |-> id, role |-> role]

NoUser == User("", NoneVal)

\* user_repo.get_user_by_id
get_user_by_id(d, user_id, fault) ==
    IF fault = "Exception" THEN RepoRes(FALSE, NoUser, "Exception")
    ELSE IF user_id \in DOMAIN d.users
         THEN RepoRes(TRUE, d.users[user_id], "")
    ELSE IF fault = "NotFoundError" THEN RepoRes(FALSE, NoUser, "NotFoundError")
    ELSE RepoRes(FALSE, NoUser, "")

\* What checkAdminOrOwner ends with: True, False or a ValidationError.
Checked(raised, detail, value, evs) ==
    [raised |-> raised, detail |-> detail, value |-> value, events |-> evs]

\* CourseService.checkAdminOrOwner
checkAdminOrOwner(user_id, course_id, d, ufault, cfault) ==
    LET u  == get_user_by_id(d, user_id, ufault)
        c  == get_course(d, course_id, cfault)
        e1 == <<Evt("user_repo.get_user_by_id", user_id)>>
        e2 == Append(e1, Evt("course_repo.get_course", course_id))
    IN  IF u.err = "NotFoundError" THEN Checked("ValidationError", "User not found", FALSE, e1)
        ELSE IF u.err # "" THEN Checked("ValidationError", "Failed to retrieve user", FALSE, e1)
        ELSE IF ~u.found THEN Checked("ValidationError", "User not found", FALSE, e1)
        ELSE IF u.value.role = "admin" THEN Checked("", "", TRUE, e1)
        ELSE IF c.err = "NotFoundError" THEN Checked("ValidationError", "Course not found", FALSE, e2)
        ELSE IF c.err # "" THEN Checked("ValidationError", "Failed to retrieve course", FALSE, e2)
        ELSE IF ~c.found THEN Checked("ValidationError", "Course not found", FALSE, e2)
        ELSE IF c.value.instructor_id = user_id THEN Checked("", "", TRUE, e2)
        ELSE Checked("", "", FALSE, e2)

\* CourseService.getEnrolledUsers; rows and err are what
\* course_repo.get_enrolled_users gives back, paged says page and page_size
\* are given, cerr is the err of course_repo.get_enrolled_users_count.
getEnrolledUsers(course_id, user_id, d, ufault, cfault, rows, err, paged, cerr) ==
    IF course_id = "" THEN ValidationError("Course ID is required", <<>>)
    ELSE
    LET ok == checkAdminOrOwner(user_id, course_id, d, ufault, cfault)
        e1 == Append(ok.events, Evt("course_repo.get_enrolled_users", course_id))
        e2 == Append(e1, Evt("course_repo.get_enrolled_users_count", course_id))
    IN  IF ok.raised # "" THEN ValidationError(ok.detail, ok.events)
        ELSE IF ~ok.value
        THEN ValidationError("You are not authorized to view this course", ok.events)
        ELSE IF err # "" THEN ValidationError("Failed to retrieve enrolled users", e1)
        ELSE IF ~paged THEN Out("", 200, "Course enrollments fetched successfully", rows, e1)
        ELSE IF cerr # "" THEN ValidationError("Failed to retrieve enrolled users count", e2)
        ELSE Out("", 200, "Course enrollments fetched successfully", rows, e2)

\* course_info.instructor_id of an update that has no such attribute.
NoAttr == "<no attribute>"

\* The outcome of a call that may write: what it ends with and the database.
Wrote(r, d) == [ret |-> r, db |-> d]

\* The courses with course c set to v.
WithCourse(courses, c, v) ==
    [x \in DOMAIN courses \cup {c} |-> IF x = c THEN v ELSE courses[x]]

\* addCourse accepting every existing user as the instructor.
addCourse_AnyUser(instructor_id, lessons, new_id, d, ufault, wfault, ffault) ==
    LET u  == get_user_by_id(d, str(instructor_id), ufault)
        e1 == <<Evt("user_repo.get_user_by_id", str(instructor_id))>>
        e2 == Append(e1, Evt("course_repo.create_course", new_id))
        e3 == IF lessons = <<>> THEN e2
              ELSE Append(e2, Evt("lesson_service.add_multiple_lessons", new_id))
        e4 == Append(e3, Evt("course_repo.get_course_with_lessons", new_id))
        d2 == [d EXCEPT !.courses =
                  WithCourse(@, new_id, Course(new_id, instructor_id, 0, <<>>, lessons))]
        f  == get_course(d2, new_id, ffault)
    IN  IF u.err = "NotFoundError" THEN Wrote(ValidationError("Instructor not found", e1), d)
        ELSE IF u.err # "" THEN Wrote(ValidationError("Failed to retrieve instructor", e1), d)
        ELSE IF ~u.found
        THEN Wrote(ValidationError("Invalid instructor ID or not an instructor", e1), d)
        ELSE IF wfault # "" THEN Wrote(ValidationError("Failed to create course", e2), d)
        ELSE IF f.err # "" \/ ~f.found
        THEN Wrote(ValidationError("Failed to fetch course with lessons", e4), d2)
        ELSE Wrote(Out("", 200, "Course created successfully", f.value.lessons, e4), d2)

\* CourseService.addCourse; new_id is the id the database gives the course,
\* wfault and ffault what create_course and get_course_with_lessons give back.
addCourse(instructor_id, lessons, new_id, d, ufault, wfault, ffault) ==
    LET u  == get_user_by_id(d, str(instructor_id), ufault)
        e1 == <<Evt("user_repo.get_user_by_id", str(instructor_id))>>
        e2 == Append(e1, Evt("course_repo.create_course", new_id))
        e3 == IF lessons = <<>> THEN e2
              ELSE Append(e2, Evt("lesson_service.add_multiple_lessons", new_id))
        e4 == Append(e3, Evt("course_repo.get_course_with_lessons", new_id))
        d2 == [d EXCEPT !.courses =
                  WithCourse(@, new_id, Course(new_id, instructor_id, 0, <<>>, lessons))]
        f  == get_course(d2, new_id, ffault)
    IN  IF u.err = "NotFoundError" THEN Wrote(ValidationError("Instructor not found", e1), d)
        ELSE IF u.err # "" THEN Wrote(ValidationError("Failed to retrieve instructor", e1), d)
        ELSE IF ~u.found \/ ~(u.value.role = "instructor")
        THEN Wrote(ValidationError("Invalid instructor ID or not an instructor", e1), d)
        ELSE IF wfault # "" THEN Wrote(ValidationError("Failed to create course", e2), d)
        ELSE IF f.err # "" \/ ~f.found
        THEN Wrote(ValidationError("Failed to fetch course with lessons", e4), d2)
        ELSE Wrote(Out("", 200, "Course created successfully", f.value.lessons, e4), d2)

\* CourseService.updateCourse; instructor_id is course_info.instructor_id, None
\* or NoAttr when the update names no instructor.
updateCourse(course_id, instructor_id, d, cfault, ufault, wfault, ffault) ==
    LET c  == get_course(d, course_id, cfault)
        supplied == instructor_id # NoAttr /\ instructor_id # NoneVal
        u  == get_user_by_id(d, str(instructor_id), ufault)
        e1 == <<Evt("course_repo.get_course", course_id)>>
        e2 == IF supplied
              THEN Append(e1, Evt("user_repo.get_user_by_id", str(instructor_id)))
              ELSE e1
        e3 == Append(e2, Evt("course_repo.update_course", course_id))
        e4 == Append(e3, Evt("course_repo.get_course_with_lessons", course_id))
        d2 == IF supplied
              THEN [d EXCEPT !.courses[course_id].instructor_id = instructor_id]
              ELSE d
        f  == get_course(d2, course_id, ffault)
    IN  IF course_id = "" THEN Wrote(ValidationError("Course ID is required", <<>>), d)
        ELSE IF c.err = "NotFoundError" THEN Wrote(ValidationError("Course not found", e1), d)
        ELSE IF c.err # "" THEN Wrote(ValidationError("Failed to retrieve course", e1), d)
        ELSE IF ~c.found THEN Wrote(ValidationError("Course not found", e1), d)
        ELSE IF supplied /\ u.err = "NotFoundError"
        THEN Wrote(ValidationError("Instructor not found", e2), d)
        ELSE IF supplied /\ u.err # ""
        THEN Wrote(ValidationError("Failed to retrieve instructor", e2), d)
        ELSE IF supplied /\ (~u.found \/ u.value.role # "instructor")
        THEN Wrote(ValidationError("Invalid instructor ID or not an instructor", e2), d)
        ELSE IF wfault # "" THEN Wrote(ValidationError("Failed to update course", e3), d)
        ELSE IF f.err # "" \/ ~f.found
        THEN Wrote(ValidationError("Failed to fetch updated course", e4), d2)
        ELSE Wrote(Out("", 200, "Course updated successfully", f.value.lessons, e4), d2)

\* Users the service is run on: each of u1, u2 missing or with any role.
UserTables ==
    UNION {[S -> Roles] : S \in SUBSET UserIds}

\* Databases the service is run on: any users, course c1 missing or taught by
\* u1 or u2, course c2 not yet created.
ServiceDbs ==
    {Db([u \in DOMAIN t |-> User(u, t[u])], cs, {}) :
        t \in UserTables,
        cs \in {<<>>} \cup {[c \in {"c1"} |-> Course("c1", i, 0, <<>>, <<>>)] : i \in UserIds}}

\* Rows course_repo.get_enrolled_users may give back.
EnrollmentRows == {<<>>, <<Lesson("enrollment", NoneVal)>>}

\* Largest number of getCourses calls made in one database session.
MaxCalls == 3

\* Largest page number asked for.
MaxPage == 3

\* The courses in the order the repository lists them.
Ordered == <<"c1", "c2">>

\* The ids of S in repository order.
Listed(S) ==
    LET F[i \in 0..Len(Ordered)] ==
            IF i = 0 THEN <<>>
            ELSE IF Ordered[i] \in S THEN Append(F[i - 1], Ordered[i]) ELSE F[i - 1]
    IN  F[Len(Ordered)]

\* The course object the session holds for id c: the one loaded before, else
\* a new one read from the row.
loaded(d, c) == IF c \in DOMAIN d.session THEN d.session[c] ELSE d.courses[c]

\* if course.discount and course.discount>0:
\*     course.price = course.price - (course.price * course.discount/100)
discounted(course) ==
    IF course.discount # <<>> /\ course.discount[1] > 0
    THEN [course EXCEPT !.price = @ - ((@ * course.discount[1]) \div 100)]
    ELSE course

\* CourseService.getCourses; S are the courses of the page course_repo.get_courses
\* gives back, gerr and cerr the err of get_courses and get_total_courses_count.
getCourses(S, page, page_size, d, gerr, cerr) ==
    LET e1 == <<Evt("course_repo.get_courses", "")>>
        e2 == Append(e1, Evt("course_repo.get_total_courses_count", ""))
        d2 == [d EXCEPT !.session =
                  [c \in DOMAIN d.session \cup S |->
                      IF c \in S THEN discounted(loaded(d, c)) ELSE d.session[c]],
                        !.queries = @ + 1]
        ids == Listed(S)
        courses_response == [i \in DOMAIN ids |-> d2.session[ids[i]]]
    IN  IF gerr # "" THEN Wrote(ValidationError("Failed to retrieve courses", e1), d)
        ELSE IF cerr # ""
        THEN Wrote(ValidationError("Failed to retrieve total courses count", e2), d2)
        ELSE Wrote(Paginated(Out("", 200, "Courses fetched successfully", courses_response, e2),
                             page, page_size, Cardinality(DOMAIN d.courses)), d2)

\* A search matches every course when empty, else the course it names.
Matches(search, c) == search = "" \/ search = c

\* The courses user_id is enrolled in that match the search, in order.
enrolled(d, user_id, search) ==
    Listed({c \in DOMAIN d.courses :
               <<user_id, c>> \in d.enrollments /\ Matches(search, c)})

\* course_repo.get_enrolled_courses: the page of the user's enrollments.
get_enrolled_courses(d, user_id, page, page_size, search) ==
    LET all  == enrolled(d, user_id, search)
        from == (page - 1) * page_size + 1
        to   == IF page * page_size < Len(all) THEN page * page_size ELSE Len(all)
    IN  SubSeq(all, from, to)

\* course_repo.get_user_courses_count
get_user_courses_count(d, user_id, search) == Len(enrolled(d, user_id, search))

\* CourseService.getEnrolledCourses
getEnrolledCourses(user_id, page, page_size, search, d, ufault, eerr, cerr) ==
    LET u  == get_user_by_id(d, user_id, ufault)
        e1 == <<Evt("user_repo.get_user_by_id", user_id)>>
        e2 == Append(e1, Evt("course_repo.get_enrolled_courses", user_id))
        e3 == Append(e2, Evt("course_repo.get_user_courses_count", user_id))
        enrollments == get_enrolled_courses(d, user_id, page, page_size, search)
        courses_response == [i \in DOMAIN enrollments |-> d.courses[enrollments[i]]]
    IN  IF user_id = "" THEN ValidationError("User ID is required", <<>>)
        ELSE IF u.err = "NotFoundError" THEN ValidationError("User not found", e1)
        ELSE IF u.err # "" THEN ValidationError("Failed to retrieve user", e1)
        ELSE IF ~u.found THEN ValidationError("User not found", e1)
        ELSE IF eerr # "" THEN ValidationError("Failed to retrieve enrolled courses", e2)
        ELSE IF enrollments = <<>>
        THEN Paginated(Out("", 200, "No courses found for the user", <<>>, e2),
                       page, page_size, 0)
        ELSE IF cerr # "" THEN ValidationError("Failed to retrieve user courses count", e3)
        ELSE Paginated(Out("", 200, "User courses fetched successfully", courses_response, e3),
                       page, page_size, get_user_courses_count(d, user_id, search))

\* Discounts a course is drawn with: None, 0, 10 and 50 per cent.
Discounts == {<<>>, <<0>>, <<10>>, <<50>>}

\* Prices are in cents, so that the discounts of MaxCalls calls are exact.
ListPrice(c) == IF c = "c1" THEN 10000 ELSE 20000

\* Databases getCourses is run on: course c1, and possibly c2, with any
\* discount.
CatalogDbs ==
    {Db(<<>>, [c \in DOMAIN ds |-> Course(c, "u2", ListPrice(c), ds[c], <<>>)], {}) :
        ds \in UNION {[S -> Discounts] : S \in {{"c1"}, CourseIds}}}

\* Databases getEnrolledCourses is run on: user u1 present or not, course c1
\* and possibly c2, u1 enrolled in any of them.
EnrolledDbs ==
    UNION {{Db(us, [c \in S |-> Course(c, "u2", ListPrice(c), <<>>, <<>>)], en) :
               us \in {<<>>, [u \in {"u1"} |-> User("u1", "student")]},
               en \in SUBSET ({"u1"} \X S)} :
           S \in {{"c1"}, CourseIds}}

\* Largest number of temporary file names handed out while earlier ones are
\* still on disk.
MaxTmp == 2

\* Names NamedTemporaryFile hands out.
TmpNames == <<"tmp1", "tmp2", "tmp3", "tmp4">>

\* A file on disk: the path of a temporary file and the extension added to it.
File(path, ext) == [path |-> path, ext |-> ext]

\* thumbnail: UploadFile
Upload(content_type, filename, thumbnail_name) ==
    [content_type |-> content_type, filename |-> filename,
     thumbnail_name |-> thumbnail_name]

\* re.match(r"^image/(jpeg|png|jpg)$", thumbnail.content_type)
image_type(content_type) == content_type \in {"image/jpeg", "image/png", "image/jpg"}

\* "." + original_filename.split(".")[-1] for the file names drawn
extension_of(filename) ==
    IF filename = "a.png" THEN ".png"
    ELSE IF filename = "a.tar.gz" THEN ".gz"
    ELSE ""

\* original_extension
original_extension(filename) ==
    IF filename # NoneVal /\ filename \in {"a.png", "a.tar.gz"}
    THEN extension_of(filename)
    ELSE ""

\* CourseService.addThumbnail; tmp_path is the name NamedTemporaryFile gives,
\* rfault, ufault and sfault what thumbnail.file.read(), storage.upload_file
\* and course_repo.save_thumbnail end with.
addThumbnail(course_id, thumbnail, tmp_path, d, cfault, rfault, ufault, sfault) ==
    LET c   == get_course(d, course_id, cfault)
        ext == original_extension(thumbnail.filename)
        file_name == IF thumbnail.thumbnail_name # "" THEN thumbnail.thumbnail_name
                     ELSE thumbnail.filename
        e1 == <<Evt("course_repo.get_course", course_id)>>
        e2 == Append(e1, Evt("NamedTemporaryFile", tmp_path))
        e3 == Append(e2, Evt("shutil.copy", tmp_path))
        e4 == Append(e3, Evt("storage.upload_file", tmp_path))
        e5 == Append(Append(e4, Evt("os.unlink", tmp_path)), Evt("os.unlink", tmp_path))
        e6 == Append(e5, Evt("course_repo.save_thumbnail", course_id))
        d1 == [d EXCEPT !.files = @ \cup {File(tmp_path, "")}]
        d2 == [d1 EXCEPT !.files = @ \cup {File(tmp_path, ext)}]
        d3 == [d2 EXCEPT !.files = @ \ {File(tmp_path, ext), File(tmp_path, "")}]
        d4 == [d3 EXCEPT !.thumbnails =
                  [x \in DOMAIN @ \cup {course_id} |->
                      IF x = course_id THEN file_name ELSE @[x]]]
    IN  IF course_id = "" THEN Wrote(ValidationError("Course ID is required", <<>>), d)
        ELSE IF c.err = "NotFoundError" THEN Wrote(ValidationError("Course not found", e1), d)
        ELSE IF c.err # "" THEN Wrote(ValidationError("Failed to retrieve course", e1), d)
        ELSE IF ~c.found THEN Wrote(ValidationError("Course not found", e1), d)
        ELSE IF ~image_type(thumbnail.content_type)
        THEN Wrote(ValidationError("Invalid image format. Only JPEG and PNG are allowed.", e1), d)
        \* tmp.write(thumbnail.file.read()) raises: except Exception
        ELSE IF rfault # ""
        THEN Wrote(ValidationError("Failed to upload thumbnail", e2), d1)
        \* shutil.copy(tmp_path, tmp_path) raises SameFileError: except Exception
        ELSE IF ext = ""
        THEN Wrote(ValidationError("Failed to upload thumbnail", e3), d1)
        ELSE IF ufault # ""
        THEN Wrote(ValidationError("Failed to upload thumbnail", e4), d2)
        ELSE IF sfault = "IntegrityError"
        THEN Wrote(ValidationError("Failed to save thumbnail", e6), d3)
        \* the ValidationError raised for err is caught by except Exception
        ELSE IF sfault # ""
        THEN Wrote(ValidationError("Failed to upload thumbnail", e6), d3)
        ELSE Wrote(Out("", 200, "Thumbnail uploaded successfully", <<>>, e6), d4)

\* Uploads addThumbnail is called with.
Uploads ==
    {Upload(t, f, n) : t \in {"image/png", "text/plain"},
                       f \in {"a.png", "a.tar.gz", "a", NoneVal}, n \in {"", "thumb"}}

\* Databases addThumbnail is run on: course c1 present or not, no temporary
\* file on disk.
ThumbnailDbs ==
    {Db(<<>>, cs, {}) : cs \in {<<>>, [c \in {"c1"} |-> Course("c1", "u2", 0, <<>>, <<>>)]}}

\* Lesson lists a course is drawn with.
Videos == {"v1", NoneVal}

LessonLists ==
    UNION {[1..n -> {Lesson("l1", v) : v \in Videos}] : n \in 0..MaxLessons}

\* Databases the routes are run on: any enrollments, course c1 missing or
\* with any lesson list.
RouteDbs ==
    {Db(<<>>, cs, en) :
        cs \in {<<>>} \cup {[c \in {"c1"} |-> Course("c1", "u1", 0, <<>>, ls)] : ls \in LessonLists},
        en \in SUBSET (UserIds \X CourseIds)}

\* Rows the analytics repository may give back.
AnalyticsRows == {<<>>, <<Lesson("row", NoneVal)>>}

------------------------------------------------------------------------------
\* The state machine: one request at a time is received and handled, then its
\* response is sent.

Init ==
    /\ phase = "idle"
    /\ req = NoRequest
    /\ events = <<>>
    /\ resp = NoResponse
    /\ forwarded = <<>>
    /\ prev = [endpoint |-> "", resp |-> NoResponse]
    /\ greq = NoGateRequest
    /\ vout = VOut("None", NoClaims)
    /\ gout = NoGated
    /\ gprev = [req |-> NoGateRequest, out |-> NoGated.out]
    /\ lim = NoLimited
    /\ db = NoDb
    /\ call = NoCall
    /\ ret = NoOut

\* The handler's outcome for request r becomes the state.
Handled(r, out) ==
    /\ phase' = "handled"
    /\ req' = r
    /\ events' = out.events
    /\ resp' = out.resp
    /\ forwarded' = out.forwarded
    /\ UNCHANGED <<prev, greq, vout, gout, gprev, lim, db, call, ret>>

GetCallback ==
    /\ phase = "idle"
    /\ \E ref_id \in Values, trx_ref \in Values, status \in Values :
        LET r == Request(GET_CALLBACK, <<>>, Absent, Absent, ref_id, trx_ref, status)
        IN  Handled(r, payment_callback_get(r))

PostWebhook ==
    /\ phase = "idle"
    /\ \E body \in Bodies :
        \E xsig \in SigChoices(body), csig \in SigChoices(body) :
            LET r == Request(POST_WEBHOOK, body, xsig, csig, "", "", "")
            IN  Handled(r, payment_callback_webhook(r))

SendResponse ==
    /\ phase = "handled"
    /\ phase' = "idle"
    /\ prev' = [endpoint |-> req.endpoint, resp |-> resp]
    /\ req' = NoRequest
    /\ events' = <<>>
    /\ resp' = NoResponse
    /\ forwarded' = <<>>
    /\ UNCHANGED <<greq, vout, gout, gprev, lim, db, call, ret>>

Next == GetCallback \/ PostWebhook \/ SendResponse

Spec == Init /\ [][Next]_vars

\* A request to an endpoint guarded by one of the dependencies: the dependency
\* is resolved, and the handler runs only when it returned.
GateCheck ==
    /\ phase = "idle"
    /\ \E dep \in Dependencies, h \in Headers :
        LET out == Resolve(dep, h)
        IN  /\ greq' = GateRequest(dep, h)
            /\ gout' = Gated(out, out.raised = "")
    /\ phase' = "gated"
    /\ UNCHANGED <<req, events, resp, forwarded, prev, vout, gprev, lim, db, call, ret>>

GateDone ==
    /\ phase = "gated"
    /\ phase' = "idle"
    /\ gprev' = [req |-> greq, out |-> gout.out]
    /\ greq' = NoGateRequest
    /\ gout' = NoGated
    /\ vout' = VOut("None", NoClaims)
    /\ UNCHANGED <<req, events, resp, forwarded, prev, lim, db, call, ret>>

NextGate == GateCheck \/ GateDone

SpecGate == Init /\ [][NextGate]_vars

\* get_optional_user_id run with its call of verify_access_token ending in any
\* way at all.
OptionalCheck ==
    /\ phase = "idle"
    /\ \E h \in Headers, v \in AnyVerifyOutcome :
        LET out == optional_user_id(h, v)
        IN  /\ greq' = GateRequest("get_optional_user_id", h)
            /\ vout' = v
            /\ gout' = Gated(out, out.raised = "")
    /\ phase' = "gated"
    /\ UNCHANGED <<req, events, resp, forwarded, prev, gprev, lim, db, call, ret>>

NextOptional == OptionalCheck \/ GateDone

SpecOptional == Init /\ [][NextOptional]_vars

\* A request to a rate limited route: the limiter computes the request's key.
LimitCheck ==
    /\ phase = "idle"
    /\ \E h \in Headers, addr \in Addrs :
        LET r == LimRequest(h, addr)
        IN  lim' = [lim EXCEPT !.req = r, !.key = key_func(r)]
    /\ phase' = "limited"
    /\ UNCHANGED <<req, events, resp, forwarded, prev, greq, vout, gout, gprev, db, call, ret>>

LimitDone ==
    /\ phase = "limited"
    /\ phase' = "idle"
    /\ lim' = [req |-> NoLimRequest, key |-> "",
               prev |-> [req |-> lim.req, key |-> lim.key]]
    /\ UNCHANGED <<req, events, resp, forwarded, prev, greq, vout, gout, gprev, db, call, ret>>

NextLimiter == LimitCheck \/ LimitDone

SpecLimiter == Init /\ [][NextLimiter]_vars

\* The course routes and service calls start from a database of RouteDbs.
InitRoutes ==
    /\ phase = "idle"
    /\ req = NoRequest
    /\ events = <<>>
    /\ resp = NoResponse
    /\ forwarded = <<>>
    /\ prev = [endpoint |-> "", resp |-> NoResponse]
    /\ greq = NoGateRequest
    /\ vout = VOut("None", NoClaims)
    /\ gout = NoGated
    /\ gprev = [req |-> NoGateRequest, out |-> NoGated.out]
    /\ lim = NoLimited
    /\ db \in RouteDbs
    /\ call = NoCall
    /\ ret = NoOut

Untouched == UNCHANGED <<req, events, resp, forwarded, prev, greq, vout, gout, gprev, lim>>

UnenrollCourse ==
    /\ phase = "idle"
    /\ \E course_id \in CourseIds, h \in Headers :
        LET r == unenroll_course(course_id, h, db)
        IN  /\ call' = Call("unenroll_course", h, course_id, NoneVal, <<>>)
            /\ ret' = r.ret
            /\ db' = r.db
    /\ phase' = "called"
    /\ Untouched

InstructorCoursesAnalytics ==
    /\ phase = "idle"
    /\ \E q \in UserIds \cup {NoneVal}, h \in Headers, rows \in AnalyticsRows,
          err \in {"", "Exception"} :
        /\ call' = Call("get_instructor_courses_analytics", h, "", q, <<err>>)
        /\ ret' = instructor_courses_analytics(q, h, rows, err)
    /\ phase' = "called"
    /\ UNCHANGED db
    /\ Untouched

GetCourseRoute ==
    /\ phase = "idle"
    /\ \E course_id \in CourseIds \cup {""}, fault \in Faults :
        /\ call' = Call("get_course", NoHeader, course_id, NoneVal, <<fault>>)
        /\ ret' = get_course_route(course_id, db, fault)
    /\ phase' = "called"
    /\ UNCHANGED db
    /\ Untouched

GetCourse ==
    /\ phase = "idle"
    /\ \E course_id \in CourseIds \cup {""}, as_admin \in BOOLEAN, fault \in Faults :
        /\ call' = Call("getCourse", NoHeader, course_id,
                        IF as_admin THEN "is_admin" ELSE NoneVal, <<fault>>)
        /\ ret' = getCourse(course_id, as_admin, db, fault)
    /\ phase' = "called"
    /\ UNCHANGED db
    /\ Untouched

\* The call is over; the database stays.
CallDone ==
    /\ phase = "called"
    /\ phase' = "idle"
    /\ call' = NoCall
    /\ ret' = NoOut
    /\ UNCHANGED db
    /\ Untouched

NextRoutes ==
    UnenrollCourse \/ InstructorCoursesAnalytics \/ GetCourseRoute \/ GetCourse
    \/ CallDone

SpecRoutes == InitRoutes /\ [][NextRoutes]_vars

\* The service methods start from a database of ServiceDbs.
InitService ==
    /\ phase = "idle"
    /\ req = NoRequest
    /\ events = <<>>
    /\ resp = NoResponse
    /\ forwarded = <<>>
    /\ prev = [endpoint |-> "", resp |-> NoResponse]
    /\ greq = NoGateRequest
    /\ vout = VOut("None", NoClaims)
    /\ gout = NoGated
    /\ gprev = [req |-> NoGateRequest, out |-> NoGated.out]
    /\ lim = NoLimited
    /\ db \in ServiceDbs
    /\ call = NoCall
    /\ ret = NoOut

GetEnrolledUsers ==
    /\ phase = "idle"
    /\ \E course_id \in CourseIds \cup {""}, user_id \in UserIds,
          ufault \in Faults, cfault \in Faults, rows \in EnrollmentRows,
          err \in {"", "Exception"}, paged \in BOOLEAN, cerr \in {"", "Exception"} :
        /\ call' = Call("getEnrolledUsers", NoHeader, course_id, user_id,
                        <<ufault, cfault, err, IF paged THEN "paged" ELSE "", cerr>>)
        /\ ret' = getEnrolledUsers(course_id, user_id, db, ufault, cfault, rows, err,
                                   paged, cerr)
    /\ phase' = "called"
    /\ UNCHANGED db
    /\ Untouched

\* The database gives a new course an id that is not in use.
AddCourse ==
    /\ phase = "idle"
    /\ DOMAIN db.courses # CourseIds
    /\ \E instructor_id \in UserIds \cup {NoneVal}, lessons \in {<<>>, <<Lesson("l1", "v1")>>},
          ufault \in Faults, wfault \in {"", "Exception"}, ffault \in {"", "Exception"} :
        LET new_id == CHOOSE c \in CourseIds : c \notin DOMAIN db.courses
            r == addCourse(instructor_id, lessons, new_id, db, ufault, wfault, ffault)
        IN  /\ call' = Call("addCourse", NoHeader, new_id, instructor_id,
                            <<ufault, wfault, ffault>>)
            /\ ret' = r.ret
            /\ db' = r.db
    /\ phase' = "called"
    /\ Untouched

UpdateCourse ==
    /\ phase = "idle"
    /\ \E course_id \in CourseIds \cup {""}, instructor_id \in UserIds \cup {NoneVal, NoAttr},
          cfault \in Faults, ufault \in Faults, wfault \in {"", "Exception"},
          ffault \in {"", "Exception"} :
        LET r == updateCourse(course_id, instructor_id, db, cfault, ufault, wfault, ffault)
        IN  /\ call' = Call("updateCourse", NoHeader, course_id, instructor_id,
                            <<cfault, ufault, wfault, ffault>>)
            /\ ret' = r.ret
            /\ db' = r.db
    /\ phase' = "called"
    /\ Untouched

NextService == GetEnrolledUsers \/ AddCourse \/ UpdateCourse \/ CallDone

SpecService == InitService /\ [][NextService]_vars

\* getCourses is called on a database of CatalogDbs.
InitCatalog ==
    /\ phase = "idle"
    /\ req = NoRequest
    /\ events = <<>>
    /\ resp = NoResponse
    /\ forwarded = <<>>
    /\ prev = [endpoint |-> "", resp |-> NoResponse]
    /\ greq = NoGateRequest
    /\ vout = VOut("None", NoClaims)
    /\ gout = NoGated
    /\ gprev = [req |-> NoGateRequest, out |-> NoGated.out]
    /\ lim = NoLimited
    /\ db \in CatalogDbs
    /\ call = NoCall
    /\ ret = NoOut

\* A call of getCourses on the service's session.
GetCourses ==
    /\ phase = "idle"
    /\ db.queries < MaxCalls
    /\ \E S \in SUBSET DOMAIN db.courses, gerr \in {"", "Exception"},
          cerr \in {"", "Exception"} :
        LET r == getCourses(S, 1, 10, db, gerr, cerr)
        IN  /\ call' = Asking(Call("getCourses", NoHeader, "", NoneVal, <<gerr, cerr>>),
                               "", 1, 10)
            /\ ret' = r.ret
            /\ db' = r.db
    /\ phase' = "called"
    /\ Untouched

\* A new CourseService on a new session: the objects loaded so far are gone,
\* and nothing was committed.
NewSession ==
    /\ phase = "idle"
    /\ db.queries > 0
    /\ db' = [db EXCEPT !.session = <<>>, !.queries = 0]
    /\ UNCHANGED <<phase, call, ret>>
    /\ Untouched

NextCatalog == GetCourses \/ NewSession \/ CallDone

SpecCatalog == InitCatalog /\ [][NextCatalog]_vars

\* getEnrolledCourses is called on a database of EnrolledDbs.
InitEnrolled ==
    /\ phase = "idle"
    /\ req = NoRequest
    /\ events = <<>>
    /\ resp = NoResponse
    /\ forwarded = <<>>
    /\ prev = [endpoint |-> "", resp |-> NoResponse]
    /\ greq = NoGateRequest
    /\ vout = VOut("None", NoClaims)
    /\ gout = NoGated
    /\ gprev = [req |-> NoGateRequest, out |-> NoGated.out]
    /\ lim = NoLimited
    /\ db \in EnrolledDbs
    /\ call = NoCall
    /\ ret = NoOut

GetEnrolledCourses ==
    /\ phase = "idle"
    /\ \E user_id \in {"u1", ""}, page \in 1..MaxPage, page_size \in 1..2,
          search \in {"", "c1"}, ufault \in Faults, eerr \in {"", "Exception"},
          cerr \in {"", "Exception"} :
        /\ call' = Asking(Call("getEnrolledCourses", NoHeader, "", user_id,
                                <<ufault, eerr, cerr>>), search, page, page_size)
        /\ ret' = getEnrolledCourses(user_id, page, page_size, search, db, ufault, eerr, cerr)
    /\ phase' = "called"
    /\ UNCHANGED db
    /\ Untouched

NextEnrolled == GetEnrolledCourses \/ CallDone

SpecEnrolled == InitEnrolled /\ [][NextEnrolled]_vars

\* addThumbnail is called on a database of ThumbnailDbs.
InitThumbnail ==
    /\ phase = "idle"
    /\ req = NoRequest
    /\ events = <<>>
    /\ resp = NoResponse
    /\ forwarded = <<>>
    /\ prev = [endpoint |-> "", resp |-> NoResponse]
    /\ greq = NoGateRequest
    /\ vout = VOut("None", NoClaims)
    /\ gout = NoGated
    /\ gprev = [req |-> NoGateRequest, out |-> NoGated.out]
    /\ lim = NoLimited
    /\ db \in ThumbnailDbs
    /\ call = NoCall
    /\ ret = NoOut

\* A call of addThumbnail; the operating system gives the temporary file a
\* name that is not in use.
AddThumbnail ==
    /\ phase = "idle"
    /\ \E n \in 1..MaxTmp :
        /\ \A f \in db.files : f.path # TmpNames[n]
        /\ \A m \in 1..(n - 1) : \E f \in db.files : f.path = TmpNames[m]
        /\ \E course_id \in {"c1", ""}, thumbnail \in Uploads, cfault \in Faults,
              rfault \in {"", "Exception"}, ufault \in {"", "Exception"},
              sfault \in {"", "Exception", "IntegrityError"} :
            LET r == addThumbnail(course_id, thumbnail, TmpNames[n], db,
                                  cfault, rfault, ufault, sfault)
            IN  /\ call' = Call("addThumbnail", NoHeader, course_id, thumbnail,
                                <<cfault, rfault, ufault, sfault>>)
                /\ ret' = r.ret
                /\ db' = r.db
    /\ phase' = "called"
    /\ Untouched

NextThumbnail == AddThumbnail \/ CallDone

SpecThumbnail == InitThumbnail /\ [][NextThumbnail]_vars

------------------------------------------------------------------------------
\* Properties of the payment callback endpoints.

Occurs(ev, e) == \E i \in DOMAIN ev : ev[i] = e

\* Every occurrence of b in ev has an occurrence of a before it.
Precedes(ev, a, b) ==
    \A j \in DOMAIN ev : ev[j] = b => \E i \in 1..(j - 1) : ev[i] = a

HandledWebhook == phase = "handled" /\ req.endpoint = POST_WEBHOOK

\* The header value a request supplies as its signature: x-chapa-signature,
\* or Chapa-Signature when the first is missing or empty.
Supplied(r) == IF r.xsig \in {Absent, Empty} THEN r.csig ELSE r.xsig

\* hex(HMAC_SHA256(secret, the exact bytes received)).
RawSignature(r) == hexdigest(CHAPA_WEBHOOK_SECRET, r.body)

\* The signature the handler computes locally, over the re-serialized body.
LocalSignature(r) == hexdigest(CHAPA_WEBHOOK_SECRET, Reserialized(r.body))

Called == Occurs(events, "process_payment_callback")

\* C1: on every entry point of the payment router (GET /payment/callback and
\* POST /payment/webhook) process_payment_callback is invoked only after a
\* successful signature check of the same request.
C1_CallOnlyAfterSignatureCheck ==
    phase = "handled" =>
        Precedes(events, "compare_digest:True", "process_payment_callback")

\* C2: a webhook request whose body is a JSON object and whose signature
\* header is hex(HMAC_SHA256(secret, raw body bytes)) is accepted and forwarded
\* to process_payment_callback, whatever the encoding of the body.
C2_RawSignatureAccepted ==
    ( /\ HandledWebhook
      /\ json_loads(req.body).kind = "dict"
      /\ \/ req.xsig = RawSignature(req) /\ req.csig = Absent
         \/ req.xsig = Absent /\ req.csig = RawSignature(req) )
    => Called /\ forwarded # <<>>

\* C3: a signature the webhook handler accepts for the body received is
\* rejected for every body that differs from it in at least one byte.
C3_OtherBytesRejected ==
    (HandledWebhook /\ Called) =>
        \A b \in Bodies :
            b # req.body =>
                payment_callback_webhook([req EXCEPT !.body = b]).forwarded = <<>>

\* C4: in the webhook handler no parse of the body (json.loads) happens
\* before the signature of the request has been verified.
C4_VerifyBeforeParse ==
    HandledWebhook => Precedes(events, "compare_digest:True", "json.loads")

\* C5: in the webhook handler process_payment_callback is called only after
\* hmac.compare_digest has succeeded on the locally computed signature and the
\* supplied header, which then are equal; an execution that raises before or at
\* the comparison never calls it.
C5_NoSideEffectBeforeSignatureSuccess ==
    HandledWebhook =>
        /\ (Called \/ forwarded # <<>>) =>
              /\ Precedes(events, "compare_digest:True", "process_payment_callback")
              /\ Supplied(req) = LocalSignature(req)
        /\ ~Occurs(events, "compare_digest:True") =>
              ~Called /\ forwarded = <<>>

\* C5 witness: a webhook request was forwarded after a successful comparison.
C5_Witness ==
    /\ HandledWebhook
    /\ Called
    /\ Len(forwarded) = 1
    /\ Supplied(req) = LocalSignature(req)

\* C6: a webhook request that carries neither signature header fails with
\* 400 "Webhook signature header not found.", whatever its body, and
\* process_payment_callback is not called.
C6_MissingSignature ==
    (HandledWebhook /\ req.xsig = Absent /\ req.csig = Absent) =>
        /\ resp = Response(400, "Webhook signature header not found.")
        /\ ~Called
        /\ forwarded = <<>>

\* C6 witness: a request without signature headers whose body is a well-formed
\* JSON object with members was rejected as missing its signature.
C6_Witness ==
    /\ HandledWebhook
    /\ req.xsig = Absent
    /\ req.csig = Absent
    /\ json_loads(req.body).kind = "dict"
    /\ json_loads(req.body).items # <<>>
    /\ resp.status = 400

\* C7: a webhook request whose supplied signature differs from the locally
\* computed HMAC fails with 401 "Invalid signature.", for every supplied value.
C7_MismatchIsInvalidSignature ==
    ( /\ HandledWebhook
      /\ Occurs(events, "hmac.new")
      /\ Supplied(req) # LocalSignature(req) )
    => resp = Response(401, "Invalid signature.")

\* C8: every webhook request that is not forwarded is rejected with a 4xx
\* response; none ends in an unhandled exception (5xx).
C8_FailuresAre4xx ==
    (HandledWebhook /\ ~Called) =>
        /\ resp.status \in 400..499
        /\ forwarded = <<>>

\* C9: any two webhook requests that both fail get the same response (status
\* and message), whatever the cause of the failure.
C9_SameResponseForEveryFailure ==
    ( /\ HandledWebhook
      /\ ~Called
      /\ prev.endpoint = POST_WEBHOOK
      /\ prev.resp.status # 200 )
    => resp = prev.resp

\* The value of key k in the bytes received: that of its last member.
LastValue(raw, k) ==
    LET at == {i \in DOMAIN raw : raw[i].t = "member" /\ raw[i].k = k}
    IN  IF at = {} THEN NoneVal
        ELSE raw[CHOOSE i \in at : \A j \in at : j <= i].v

\* C11 as claimed: a webhook request (with a JSON object body) that carries the
\* signature the handler computes in at least one of the two headers is
\* accepted, whatever the other header holds.
C11_EitherHeaderAccepted ==
    ( /\ HandledWebhook
      /\ json_loads(req.body).kind = "dict"
      /\ (req.xsig = LocalSignature(req) \/ req.csig = LocalSignature(req)) )
    => Called

\* C11 as amended: the request is accepted when the matching signature is in
\* x-chapa-signature (whatever Chapa-Signature holds), or in Chapa-Signature
\* with x-chapa-signature absent or empty; a non-empty x-chapa-signature that
\* does not match is never overruled by Chapa-Signature.
C11_FirstNonEmptyHeaderDecides ==
    (HandledWebhook /\ json_loads(req.body).kind = "dict") =>
        /\ ( \/ req.xsig = LocalSignature(req)
             \/ (req.xsig \in {Absent, Empty} /\ req.csig = LocalSignature(req)) )
           => (Called /\ Len(forwarded) = 1)
        /\ (req.xsig \notin {Absent, Empty} /\ req.xsig # LocalSignature(req))
           => ~Called

\* C11 witness: accepted on Chapa-Signature alone, x-chapa-signature being empty.
C11_Witness ==
    /\ HandledWebhook
    /\ req.xsig = Empty
    /\ req.csig = LocalSignature(req)
    /\ json_loads(req.body).items # <<>>
    /\ Called

\* C12: on signature success the webhook handler forwards exactly one
\* CallbackPayload, whose trx_ref, status and reference are the values of these
\* keys in the body received.
C12_ForwardsOnePayloadOfTheBody ==
    (HandledWebhook /\ Occurs(events, "compare_digest:True")) =>
        /\ Len(forwarded) = 1
        /\ forwarded[1] = CallbackPayload(LastValue(req.body, "trx_ref"),
                                          LastValue(req.body, "status"),
                                          LastValue(req.body, "reference"))

------------------------------------------------------------------------------
\* Properties of the Authorization dependencies.

Gated_(dep) == phase = "gated" /\ greq.dep = dep

\* The header is exactly `Bearer <token>`: the scheme, one blank, a token.
BearerForm(h) ==
    /\ h.present
    /\ Len(h.parts) = 3
    /\ h.parts[1] = BEARER
    /\ h.parts[2] = SP
    /\ h.parts[3].kind = "token"

Presented(h) == h.parts[3].tok

\* A JWT signed with the server's key and not expired.
WellSigned(t) == t.form = "jwt" /\ t.key = SECRET_KEY /\ ~t.expired

Fails401(g) ==
    /\ g.out.raised = "HTTPException"
    /\ g.out.status = 401
    /\ g.out.claims = NoClaims
    /\ g.out.id = NoneVal
    /\ ~g.ran

Fails403(g) ==
    /\ g.out.raised = "HTTPException"
    /\ g.out.status = 403
    /\ g.out.claims = NoClaims
    /\ ~g.ran

\* C13: is_logged_in fails with 401 for every request whose Authorization
\* header is absent or is not of the form `Bearer <token>`, and returns no
\* identity then.
C13_NotBearerFormIs401 ==
    (Gated_("is_logged_in") /\ ~BearerForm(greq.header)) => Fails401(gout)

\* C14: for a token signed with another key, expired or malformed, presented
\* as `Bearer <token>`, is_logged_in, is_admin and is_admin_or_instructor fail
\* with 401, return no claims, and the guarded handler is not executed.
C14_InvalidTokenIs401 ==
    ( /\ phase = "gated"
      /\ greq.dep \in {"is_logged_in", "is_admin", "is_admin_or_instructor"}
      /\ BearerForm(greq.header)
      /\ ~WellSigned(Presented(greq.header)) )
    => Fails401(gout)

\* C14 witness: is_admin refused an expired admin token.
C14_Witness ==
    /\ Gated_("is_admin")
    /\ BearerForm(greq.header)
    /\ Presented(greq.header).expired
    /\ Presented(greq.header).claims.role = "admin"
    /\ gout.out.status = 401

\* C15: for a well-formed, correctly signed, unexpired token presented as
\* `Bearer <token>`, is_logged_in returns the claims (id, role) of that token.
C15_ValidTokenReturnsItsClaims ==
    ( /\ Gated_("is_logged_in")
      /\ BearerForm(greq.header)
      /\ WellSigned(Presented(greq.header)) )
    => /\ gout.out.raised = ""
       /\ gout.out.claims = Presented(greq.header).claims
       /\ gout.ran

\* C15 witness: is_logged_in returned the claims of user u2, an instructor.
C15_Witness ==
    /\ Gated_("is_logged_in")
    /\ BearerForm(greq.header)
    /\ WellSigned(Presented(greq.header))
    /\ gout.out.claims = Claims("u2", "instructor")

\* C16: with a valid token is_admin returns the claims iff the role is admin,
\* is_admin_or_instructor iff the role is admin or instructor; for every other
\* role, and for a missing role, they fail with 403.
C16_RoleDecides ==
    ( /\ phase = "gated"
      /\ BearerForm(greq.header)
      /\ WellSigned(Presented(greq.header)) )
    => LET t  == Presented(greq.header)
           ok == /\ gout.out.raised = ""
                 /\ gout.out.claims = t.claims
                 /\ gout.ran
       IN  /\ greq.dep = "is_admin" =>
                IF t.claims.role = "admin" THEN ok ELSE Fails403(gout)
           /\ greq.dep = "is_admin_or_instructor" =>
                IF t.claims.role \in {"admin", "instructor"} THEN ok
                ELSE Fails403(gout)

\* C16 witness: is_admin refused a valid instructor token with 403.
C16_Witness ==
    /\ Gated_("is_admin")
    /\ BearerForm(greq.header)
    /\ WellSigned(Presented(greq.header))
    /\ Presented(greq.header).claims.role = "instructor"
    /\ gout.out.status = 403

\* C17: on is_admin and is_admin_or_instructor a request whose credential is
\* missing, malformed, invalid or expired fails with 401, never with 403.
C17_BadCredentialIs401Not403 ==
    ( /\ phase = "gated"
      /\ greq.dep \in {"is_admin", "is_admin_or_instructor"}
      /\ ~(BearerForm(greq.header) /\ WellSigned(Presented(greq.header))) )
    => Fails401(gout)

\* C18 as claimed: get_optional_user_id never raises, whatever the header and
\* however its call of verify_access_token ends.
C18_NeverRaises ==
    Gated_("get_optional_user_id") => gout.out.raised = ""

\* C18 as amended: get_optional_user_id never raises HTTPException, and returns
\* a value whenever verify_access_token is not called, returns a dict or a
\* falsy value, or raises HTTPException; what it lets through is another
\* exception of verify_access_token, or the AttributeError of a returned value
\* without .get.
C18_NeverRaisesHTTPException ==
    Gated_("get_optional_user_id") =>
        /\ gout.out.raised # "HTTPException"
        /\ ( \/ ~startswith_Bearer(greq.header)
             \/ vout.kind \in {"dict", "None", "HTTPException"} )
           => (gout.out.raised = "" /\ gout.ran)
        /\ (vout.kind = "HTTPException" \/ ~startswith_Bearer(greq.header))
           => gout.out.id = NoneVal

\* C18 witness: verify_access_token raised HTTPException and None was returned.
C18_Witness ==
    /\ Gated_("get_optional_user_id")
    /\ BearerForm(greq.header)
    /\ vout.kind = "HTTPException"
    /\ gout.out = ReturnId(NoneVal)
    /\ gout.ran

\* C19: get_optional_user_id returns the id claim of every valid token, and
\* None for every request whose header is missing, is not of the form
\* `Bearer <token>`, or carries an invalid or expired token.
C19_IdOfValidTokenElseNone ==
    Gated_("get_optional_user_id") =>
        IF BearerForm(greq.header) /\ WellSigned(Presented(greq.header))
        THEN gout.out = ReturnId(Presented(greq.header).claims.id)
        ELSE gout.out = ReturnId(NoneVal)

------------------------------------------------------------------------------
\* Properties of the rate limiter's key.

\* The caller of a request: its user when it carries a valid token as
\* `Bearer <token>`, its address otherwise.
Caller(r) ==
    IF BearerForm(r.header) /\ WellSigned(Presented(r.header))
    THEN [user |-> Presented(r.header).claims.id, addr |-> ""]
    ELSE [user |-> NoneVal, addr |-> r.addr]

\* C21: as the limiter invokes it, jwt_user_or_ip_key gives two requests the
\* same key iff they come from the same authenticated user, or are both
\* anonymous and come from the same address.
C21_KeyIdentifiesCaller ==
    (phase = "limited" /\ lim.prev.req # NoLimRequest) =>
        (lim.key = lim.prev.key <=> Caller(lim.req) = Caller(lim.prev.req))

------------------------------------------------------------------------------
\* Properties of the course routes and the course service.

Calls(op) == phase = "called" /\ call.op = op

ValidBearer(h) == BearerForm(h) /\ WellSigned(Presented(h))

\* C22: an authenticated DELETE /courses/enroll/{course_id} ends in success,
\* and afterwards no enrollment links the token's user to the course.
C22_UnenrollRemovesEnrollment ==
    (Calls("unenroll_course") /\ ValidBearer(call.header)) =>
        /\ ret.raised = ""
        /\ <<Presented(call.header).claims.id, call.course_id>> \notin db.enrollments

\* The ids of the well-signed tokens a header holds.
VerifiedIds(h) ==
    {h.parts[i].tok.claims.id :
        i \in {j \in DOMAIN h.parts :
                  h.parts[j].kind = "token" /\ WellSigned(h.parts[j].tok)}}

\* C23: the instructor_id GET /analysis/instructor/courses passes to
\* get_instructor_courses_analytics is the id claim of the caller's verified
\* token, whatever instructor_id the request names.
C23_InstructorIsTheCaller ==
    Calls("get_instructor_courses_analytics") =>
        /\ \A i \in DOMAIN ret.events : ret.events[i].arg \in VerifiedIds(call.header)
        /\ ValidBearer(call.header) =>
              \A i \in DOMAIN ret.events :
                  ret.events[i].arg = Presented(call.header).claims.id
        /\ (ValidBearer(call.header)
               /\ Presented(call.header).claims.role \in {"admin", "instructor"})
           => Len(ret.events) >= 1

\* C23 witness: instructor u1 asked for the analytics naming instructor u2, and
\* the service and the repository were asked for those of u1.
C23_Witness ==
    /\ Calls("get_instructor_courses_analytics")
    /\ ValidBearer(call.header)
    /\ Presented(call.header).claims = Claims("u1", "instructor")
    /\ call.arg = "u2"
    /\ Len(ret.events) = 2
    /\ ret.events[2] = Evt("course_repo.get_instructor_courses_analytics", "u1")
    /\ ret.raised = ""

\* C24: getCourse with is_admin false, and GET /courses/{course_id} always,
\* return a course response in which the video of every lesson is None.
C24_NoVideoUnlessAdmin ==
    ( /\ phase = "called"
      /\ \/ call.op = "get_course"
         \/ call.op = "getCourse" /\ call.arg = NoneVal
      /\ ret.raised = "" )
    => /\ call.course_id \in DOMAIN db.courses
       /\ Len(ret.data) = Len(db.courses[call.course_id].lessons)
       /\ \A i \in DOMAIN ret.data :
             /\ ret.data[i].video = NoneVal
             /\ ret.data[i].id = db.courses[call.course_id].lessons[i].id

\* C24 witness: the route returned a course of two lessons that both have a
\* video stored.
C24_Witness ==
    /\ Calls("get_course")
    /\ ret.raised = ""
    /\ Len(ret.data) = 2
    /\ \A i \in 1..2 : db.courses[call.course_id].lessons[i].video = "v1"
    /\ \A i \in 1..2 : ret.data[i].video = NoneVal

Asked(fn) == \E i \in DOMAIN ret.events : ret.events[i].fn = fn

\* The user is an admin, or the instructor of the course.
AdminOrOwner(d, user_id, course_id) ==
    /\ user_id \in DOMAIN d.users
    /\ course_id \in DOMAIN d.courses
    /\ \/ d.users[user_id].role = "admin"
       \/ d.courses[course_id].instructor_id = user_id

\* C25: getEnrolledUsers returns enrollments only to an admin or to the
\* instructor of the course; for every other user, and for an unknown user or
\* course, it raises ValidationError and never calls get_enrolled_users.
C25_OnlyAdminOrOwner ==
    (Calls("getEnrolledUsers") /\ ~AdminOrOwner(db, call.arg, call.course_id)) =>
        /\ ret.raised = "ValidationError"
        /\ ~Asked("course_repo.get_enrolled_users")

\* The id names an existing user whose role is instructor.
IsInstructor(d, id) == id \in DOMAIN d.users /\ d.users[id].role = "instructor"

\* C26: addCourse and updateCourse raise ValidationError and write no course
\* when the supplied instructor_id is not an existing instructor; updateCourse
\* looks the instructor up only when an instructor_id is supplied.
C26_NoWriteWithoutInstructor ==
    /\ (Calls("addCourse") /\ ~IsInstructor(db, call.arg)) =>
          /\ ret.raised = "ValidationError"
          /\ ~Asked("course_repo.create_course")
          /\ call.course_id \notin DOMAIN db.courses
    /\ (Calls("updateCourse") /\ call.arg \notin {NoneVal, NoAttr}
          /\ ~IsInstructor(db, call.arg)) =>
          /\ ret.raised = "ValidationError"
          /\ ~Asked("course_repo.update_course")
    /\ (Calls("updateCourse") /\ call.arg \in {NoneVal, NoAttr}) =>
          ~Asked("user_repo.get_user_by_id")

\* C26 witness: addCourse refused user u1, who exists and is a student, and
\* updateCourse without an instructor_id updated course c1.
C26_Witness ==
    \/ /\ Calls("addCourse")
       /\ call.arg = "u1"
       /\ "u1" \in DOMAIN db.users
       /\ db.users["u1"].role = "student"
       /\ ret.detail = "Invalid instructor ID or not an instructor"
    \/ /\ Calls("updateCourse")
       /\ call.arg = NoneVal
       /\ Asked("course_repo.update_course")
       /\ ret.raised = ""

------------------------------------------------------------------------------
\* C27: get_optional_user_id agrees with is_logged_in on every request: it
\* returns an id exactly where is_logged_in succeeds, that id is the id of the
\* claims is_logged_in returns, and it returns None exactly where is_logged_in
\* raises Unauthenticated.
C27_OptionalAgreesWithLoggedIn ==
    /\ Gated_("get_optional_user_id") =>
          LET l == is_logged_in(greq.header)
          IN  /\ gout.out.raised = ""
              /\ gout.out.id # NoneVal <=> l.raised = ""
              /\ l.raised = "" => gout.out.id = l.claims.id
              /\ gout.out.id = NoneVal <=> (l.raised = "HTTPException" /\ l.status = 401)
    /\ Gated_("is_logged_in") =>
          LET o == get_optional_user_id(greq.header)
          IN  /\ gout.out.raised = "" <=> o.id # NoneVal
              /\ gout.out.raised = "" => gout.out.claims.id = o.id
              /\ gout.out.raised # "" => (gout.out.status = 401 /\ o = ReturnId(NoneVal))

\* C27 witness: get_optional_user_id returned u2 for a header in which text
\* follows the token, a header is_logged_in accepts as well.
C27_Witness ==
    /\ Gated_("get_optional_user_id")
    /\ Len(greq.header.parts) = 5
    /\ gout.out = ReturnId("u2")
    /\ is_logged_in(greq.header).claims.id = "u2"

------------------------------------------------------------------------------
\* The price getCourses is to report for a stored course.
Reported(course) ==
    IF course.discount # <<>> /\ course.discount[1] > 0
    THEN course.price - (course.price * course.discount[1]) \div 100
    ELSE course.price

\* C28: getCourses is read-only on the course records: after any number of
\* calls the price held by each course object the repository returned is the
\* stored price, and the price reported is the stored price less the discount,
\* never discounted twice.
C28_GetCoursesReadOnly ==
    (Calls("getCourses") /\ ret.raised = "") =>
        \A i \in DOMAIN ret.data :
            LET stored == db.courses[ret.data[i].id]
            IN  /\ db.session[ret.data[i].id].price = stored.price
                /\ ret.data[i].price = Reported(stored)

\* C29: getEnrolledCourses reports in pagination.total_items the number of
\* courses the user is enrolled in that match the search, for every page and
\* page_size, a page past the last one included.
C29_TotalItemsIsTheCount ==
    (Calls("getEnrolledCourses") /\ ret.raised = "") =>
        ret.pagination.total_items =
            Cardinality({c \in DOMAIN db.courses :
                            /\ <<call.arg, c>> \in db.enrollments
                            /\ (call.query.search = "" \/ call.query.search = c)})

------------------------------------------------------------------------------
\* C30: addThumbnail leaves no temporary file behind: however it returns or
\* raises after the two temporary files were created (it reached the upload),
\* the temporary file and its copy with the extension are removed.
C30_NoTemporaryFileLeft ==
    Calls("addThumbnail") =>
        \A i \in DOMAIN ret.events :
            ret.events[i].fn = "storage.upload_file" =>
                \A f \in db.files : f.path # ret.events[i].arg

====
